---- MODULE Spec2Model ----
(***************************************************************************)
(* The React front end of the BigQuery Analytics Hub as a state machine:   *)
(* the shared selection context (AppProvider), the router location, the    *)
(* state of the four views (OrganizationOverview, PulseView,               *)
(* TimeWindowInvestigation, ExpensiveQueries) and the HTTP calls in        *)
(* flight.  Every user event and every promise continuation is one action. *)
(* The Flask back end is not part of the front-end sources: the answers it *)
(* gives are modelled from the interface description (section "Back end"). *)
(***************************************************************************)
EXTENDS Integers, Sequences, FiniteSets, TLC

(***************************************************************************)
(* Bounds of the model.                                                    *)
(***************************************************************************)
\* Calls that may be outstanding at once (issued, not yet handled).
MaxInFlight == 2

\* Execution records of the job histories that answers are drawn from.
MaxRecords == 12

\* Query texts of every length up to this one are drawn (and one of 500 units).
MaxQueryLength == 152

\* Project rows with up to this many queries and errors are drawn.
MaxTotalQueries == 41
MaxErrorCount == 3

(***************************************************************************)
(* Values of the program.                                                  *)
(***************************************************************************)
\* JavaScript null for the object-valued state (queryDetails, pulseData, dashboardData).
Null == [null |-> TRUE]

\* JavaScript null for selectedJobId.
NoJob == "null"

\* The empty text '' (recommendations, debugInfo); a text is a sequence of tokens.
EmptyText == << >>

\* Two of the regions the context offers.
Regions == {"us", "eu"}

\* useState('us')
InitialRegion == "us"

\* useState('any_value'): the wildcard project.
AnyProject == "any_value"

\* Two of Config.TIME_RANGE_OPTIONS.
TimeRanges == {"24h", "1h"}

\* Config.DEFAULT_TIME_RANGE
DEFAULT_TIME_RANGE == "24h"

\* The routes of App.
RootPath == "/"
PulsePath == "/pulse"
TimeWindowPath == "/time-window"
ExpensivePath == "/expensive-queries"
Routes == {RootPath, PulsePath, TimeWindowPath, ExpensivePath}

\* navItems: the paths of the navigation links of Layout.
navItems == << RootPath, PulsePath, TimeWindowPath, ExpensivePath >>

\* to={`/project/${project.id}`}
ProjectPath(id) ==
    "/project/" \o id

\* The project list setProjects receives when the projects call fails.
FallbackProjects ==
    << [id |-> "any_value", name |-> "is any value", display_name |-> "All Projects"] >>

\* "Top 10 Most Expensive Queries"
TopN == 10

\* Config.MAX_QUERY_PREVIEW_LENGTH
MAX_QUERY_PREVIEW_LENGTH == 150

\* A JavaScript array value.
JsArray(items) == [type |-> "array", items |-> items]

\* A JavaScript object value that is the body of an expensive-queries answer;
\* hasQueries tells whether it has a queries field.
ObjectBody(hasQueries, queries, debug) ==
    [type |-> "object", hasQueries |-> hasQueries, queries |-> queries, debug |-> debug]

\* The empty body '' (an answer without content).
EmptyBody == [type |-> "empty"]

(***************************************************************************)
(* Back end: the answers of the seven endpoints, from the interface of the *)
(* specification.  The job history is a fixed set of execution records.    *)
(***************************************************************************)
Warehouse ==
    { [job_id |-> "j1", project_id |-> "p1", region |-> "us", total_slot_ms |-> 5, creation_time |-> 2],
      [job_id |-> "j2", project_id |-> "p1", region |-> "us", total_slot_ms |-> 5, creation_time |-> 1],
      [job_id |-> "j3", project_id |-> "p2", region |-> "us", total_slot_ms |-> 9, creation_time |-> 3] }

JobIds == { rec.job_id : rec \in Warehouse }

\* Records of a scope: a region and a project or the wildcard.
InScope(project, region) ==
    { rec \in Warehouse :
        /\ rec.region = region
        /\ (project = AnyProject \/ rec.project_id = project) }

\* rec comes before other: more slot-ms, or as many and submitted earlier.
Before(rec, other) ==
    \/ rec.total_slot_ms > other.total_slot_ms
    \/ /\ rec.total_slot_ms = other.total_slot_ms
       /\ rec.creation_time < other.creation_time

RECURSIVE Ranked(_)
Ranked(records) ==
    IF records = {} THEN << >>
    ELSE LET first == CHOOSE rec \in records :
                          \A other \in records \ {rec} : Before(rec, other)
         IN  << [job_id |-> first.job_id, project_id |-> first.project_id,
                 total_slot_ms |-> first.total_slot_ms,
                 creation_time |-> first.creation_time] >>
             \o Ranked(records \ {first})

Take(list, n) ==
    IF Len(list) <= n THEN list ELSE SubSeq(list, 1, n)

\* Faulty variant of TopOf: n is not applied.
TopOfUnlimited(records, n) ==
    Ranked(records)

\* The first n of the ranked records.
TopOf(records, n) ==
    Take(Ranked(records), n)

\* topByCost(scope, window, n)
TopByCost(project, region, n) ==
    TopOf(InScope(project, region), n)

\* GET expensive-queries(project, region) -> { queries, debug? }
ExpensiveQueriesBody(project, region) ==
    LET top == TopByCost(project, region, TopN)
    IN  ObjectBody(TRUE, top,
                   IF top = << >> THEN << "no", "jobs", "in", "scope" >> ELSE EmptyText)

\* GET projects(region) -> [{id, name, display_name}]
ProjectsBody(region) ==
    LET named(p) == [id |-> p, name |-> p, display_name |-> p]
        ids == { rec.project_id : rec \in InScope(AnyProject, region) }
    IN  << [id |-> "any_value", name |-> "is any value", display_name |-> "All Projects"] >>
        \o (IF "p1" \in ids THEN << named("p1") >> ELSE << >>)
        \o (IF "p2" \in ids THEN << named("p2") >> ELSE << >>)

\* POST query-details({job_id}) -> { query, ddl }; the tables of j3 are dropped.
QueryDetailsBody(jobId) ==
    [query |-> << "select", jobId >>,
     ddl |-> IF jobId = "j3" THEN EmptyText ELSE << "create", "table", jobId >>]

\* POST optimize({query, ddl}) -> { recommendations }: opaque text, one per input.
OptimizeBody(query, ddl) ==
    [recommendations |-> << "rewrite" >> \o query \o << "given" >> \o ddl]

RECURSIVE SumSlotMs(_)
SumSlotMs(records) ==
    IF records = {} THEN 0
    ELSE LET rec == CHOOSE r \in records : TRUE
         IN  rec.total_slot_ms + SumSlotMs(records \ {rec})

\* GET organization-overview(region) -> { projects, orgStats }
OrganizationOverviewBody(region) ==
    LET row(p) == [project_id |-> p,
                   total_queries |-> 20 * Cardinality(InScope(p, region)),
                   error_count |-> Cardinality(InScope(p, region))]
        ids == { rec.project_id : rec \in InScope(AnyProject, region) }
        rows == (IF "p1" \in ids THEN << row("p1") >> ELSE << >>)
                \o (IF "p2" \in ids THEN << row("p2") >> ELSE << >>)
    IN  [projects |-> rows,
         orgStats |-> [totalProjects |-> Len(rows),
                       totalQueries |-> 20 * Cardinality(InScope(AnyProject, region)),
                       totalErrors |-> Cardinality(InScope(AnyProject, region))]]

\* GET pulse-data(project, region) -> { weeklySlotMs, kpis, reservations, ... }
PulseDataBody(project, region) ==
    LET top == Ranked(InScope(project, region))
    IN  [weeklySlotMs |-> [i \in 1..Len(top) |-> top[i].total_slot_ms],
         kpis |-> [spillsToDiskWTD |-> Len(top)],
         reservations |-> [totalSlots |-> SumSlotMs(InScope(project, region))]]

\* Records of a scope submitted inside the time range.
InWindow(range, project, region) ==
    { rec \in InScope(project, region) :
        range = "24h" \/ rec.creation_time >= 3 }

\* GET operational-dashboard(range, project, region) -> { kpis, slotUsageChart, ... }
OperationalDashboardBody(range, project, region) ==
    LET top == Ranked(InWindow(range, project, region))
    IN  [kpis |-> [slotUsage |-> [current |-> SumSlotMs(InWindow(range, project, region)),
                                  max |-> 2000],
                   errors |-> [count |-> 0],
                   totalJobs |-> [value |-> Len(top)]],
         slotUsageChart |-> [i \in 1..Len(top) |-> top[i].total_slot_ms],
         topUsers |-> [i \in 1..Len(top) |-> top[i].project_id]]

(***************************************************************************)
(* State.                                                                  *)
(***************************************************************************)
VARIABLES
    \* AppProvider
    ctxProjects, selectedProject, selectedRegion, ctxLoading,
    \* Router
    location,
    \* OrganizationOverview
    orgProjects, orgStats, orgLoading,
    \* PulseView
    pulseData, pulseLoading,
    \* TimeWindowInvestigation
    dashboardData, timeRange, twLoading,
    \* ExpensiveQueries
    expensiveQueries, selectedJobId, queryDetails, recommendations, debugInfo,
    isModalOpen, loadingQueries, loadingDetails, loadingRecommendations,
    \* axios calls issued and not yet handled, in the order of issue
    net

ctxVars == << ctxProjects, selectedProject, selectedRegion, ctxLoading >>
orgVars == << orgProjects, orgStats, orgLoading >>
pulseVars == << pulseData, pulseLoading >>
twVars == << dashboardData, timeRange, twLoading >>
eqVars ==
    << expensiveQueries, selectedJobId, queryDetails, recommendations, debugInfo,
       isModalOpen, loadingQueries, loadingDetails, loadingRecommendations >>
viewVars == << orgVars, pulseVars, twVars, eqVars >>
vars == << ctxVars, location, viewVars, net >>

(***************************************************************************)
(* Calls.  A call is pending until the back end settles it ("ok" or        *)
(* "error"); its continuation then runs as one step.  live is FALSE once   *)
(* the component that issued it is unmounted.                              *)
(***************************************************************************)
Call(kind) ==
    [kind |-> kind, timeRange |-> "", project |-> "", region |-> "", job_id |-> "",
     query |-> EmptyText, ddl |-> EmptyText, live |-> TRUE, status |-> "pending"]

\* Faulty variant of ProjectsCall: the call is built from the region of the
\* render before the change (fetchProjects called from the change handler).
ProjectsCallOfStaleRender(region) ==
    [Call("projects") EXCEPT !.region = selectedRegion]

\* axios.get(`/projects?region=${selectedRegion}`)
ProjectsCall(region) ==
    [Call("projects") EXCEPT !.region = region]

\* axios.get(`/organization-overview?region=${selectedRegion}`)
OrganizationCall(region) ==
    [Call("organization-overview") EXCEPT !.region = region]

\* axios.get(`/pulse-data?project=${selectedProject}&region=${selectedRegion}`)
PulseCall(project, region) ==
    [Call("pulse-data") EXCEPT !.project = project, !.region = region]

\* axios.get(`/operational-dashboard?timeRange=..&project=..&region=..`)
DashboardCall(range, project, region) ==
    [Call("operational-dashboard") EXCEPT
        !.timeRange = range, !.project = project, !.region = region]

\* axios.get(`/expensive-queries?project=${selectedProject}&region=${selectedRegion}`)
ExpensiveCall(project, region) ==
    [Call("expensive-queries") EXCEPT !.project = project, !.region = region]

\* axios.post(`/query-details`, { job_id: jobId })
DetailsCall(jobId) ==
    [Call("query-details") EXCEPT !.job_id = jobId]

\* axios.post(`/optimize`, { query: queryDetails.query, ddl: queryDetails.ddl })
OptimizeCall(details) ==
    [Call("optimize") EXCEPT !.query = details.query, !.ddl = details.ddl]

\* Faulty variant of ViewCall: the call is built from the selection of the
\* render before the change (a stale closure).
ViewCallOfStaleRender(loc, range, project, region) ==
    CASE loc = RootPath -> OrganizationCall(selectedRegion)
      [] loc = PulsePath -> PulseCall(selectedProject, selectedRegion)
      [] loc = TimeWindowPath -> DashboardCall(timeRange, selectedProject, selectedRegion)
      [] loc = ExpensivePath -> ExpensiveCall(selectedProject, selectedRegion)

\* The data call of the view shown at loc, made by the render that holds
\* range, project and region.
ViewCall(loc, range, project, region) ==
    CASE loc = RootPath -> OrganizationCall(region)
      [] loc = PulsePath -> PulseCall(project, region)
      [] loc = TimeWindowPath -> DashboardCall(range, project, region)
      [] loc = ExpensivePath -> ExpensiveCall(project, region)

\* The route whose element issues calls of this kind ("" for AppProvider).
RouteOf(kind) ==
    CASE kind = "organization-overview" -> RootPath
      [] kind = "pulse-data" -> PulsePath
      [] kind = "operational-dashboard" -> TimeWindowPath
      [] kind \in {"expensive-queries", "query-details", "optimize"} -> ExpensivePath
      [] OTHER -> ""

\* Faulty variant of Mounted: the state outlives the component (as if it were
\* kept outside of it), so every continuation acts on it.
MountedAlways(call) ==
    TRUE

\* A state setter acts only while its component instance is mounted.
Mounted(call) ==
    call.live

RemoveAt(calls, i) ==
    [k \in 1..(Len(calls) - 1) |-> IF k < i THEN calls[k] ELSE calls[k + 1]]

\* Routes replaces the element: the calls of the unmounted view outlive it.
Orphaned(calls) ==
    [k \in 1..Len(calls) |->
        IF RouteOf(calls[k].kind) = "" THEN calls[k]
        ELSE [calls[k] EXCEPT !.live = FALSE]]

Settled(i) ==
    /\ i \in 1..Len(net)
    /\ net[i].status # "pending"

(***************************************************************************)
(* Initial values of the component state (useState).                       *)
(***************************************************************************)
EmptyOrgStats ==
    [totalProjects |-> 0, totalQueries |-> 0, totalErrors |-> 0]

OrgInitial ==
    /\ orgProjects = << >>
    /\ orgStats = EmptyOrgStats
    /\ orgLoading = TRUE

PulseInitial ==
    /\ pulseData = Null
    /\ pulseLoading = TRUE

TimeWindowInitial ==
    /\ dashboardData = Null
    /\ timeRange = DEFAULT_TIME_RANGE
    /\ twLoading = TRUE

\* loadingQueries is set by the mount effect of the view that is shown.
ExpensiveInitial(shown) ==
    /\ expensiveQueries = JsArray(<< >>)
    /\ selectedJobId = NoJob
    /\ queryDetails = Null
    /\ recommendations = EmptyText
    /\ debugInfo = EmptyText
    /\ isModalOpen = FALSE
    /\ loadingQueries = shown
    /\ loadingDetails = FALSE
    /\ loadingRecommendations = FALSE

\* The application after its first render and its mount effects: the view of
\* the opened route and the provider have each issued their call.
Init ==
    /\ ctxProjects = << >>
    /\ selectedProject = AnyProject
    /\ selectedRegion = InitialRegion
    /\ ctxLoading = TRUE
    /\ location \in Routes
    /\ OrgInitial
    /\ PulseInitial
    /\ TimeWindowInitial
    /\ ExpensiveInitial(location = ExpensivePath)
    /\ net = << ViewCall(location, DEFAULT_TIME_RANGE, AnyProject, InitialRegion),
                ProjectsCall(InitialRegion) >>

(***************************************************************************)
(* Front end: values and pure helpers.                                     *)
(***************************************************************************)
\* The data PulseView sets when its call fails.
MockPulseData ==
    [weeklySlotMs |-> << 2800, 1200, 800, 400, 200 >>,
     kpis |-> [spillsToDiskWTD |-> 0],
     reservations |-> [totalSlots |-> 1000]]

\* The data TimeWindowInvestigation sets when its call fails.
EmptyDashboard ==
    [kpis |-> [slotUsage |-> [current |-> 0, max |-> 2000],
               errors |-> [count |-> 0],
               totalJobs |-> [value |-> 0]],
     slotUsageChart |-> << >>,
     topUsers |-> << >>]

\* The text of the catch branch of fetchExpensiveQueries.
ErrorText == << "Error:" >>

\* Faulty variant of ResponseQueries: the list is taken in reverse order.
ResponseQueriesReversed(data) ==
    JsArray([k \in 1..Len(data.queries) |-> data.queries[Len(data.queries) + 1 - k]])

\* response.data.queries || response.data || []: the queries array when the
\* body has one (an array, also an empty one, is truthy), else the body
\* itself when it is truthy (an object or an array), else the empty array.
ResponseQueries(data) ==
    IF data.type = "object" /\ data.hasQueries THEN JsArray(data.queries)
    ELSE IF data.type # "empty" THEN data
    ELSE JsArray(<< >>)

\* response.data.debug: undefined (falsy) unless the body is an object.
ResponseDebug(data) ==
    IF data.type = "object" THEN data.debug ELSE EmptyText

\* Faulty variant of ExceedsFivePercent: five percent count as exceeded.
ReachesFivePercent(errors, total) ==
    20 * errors >= total

\* project.error_count > project.total_queries * 0.05, for counts below 2^31.
\* The product is a double: it is the whole number total / 20 when total is a
\* multiple of 20, and lies between the same two whole numbers as total / 20
\* otherwise, so a whole number exceeds it exactly when it exceeds the
\* quotient rounded down.
ExceedsFivePercent(errors, total) ==
    errors > total \div 20

\* formattedProjects
FormatProjects(rows) ==
    [k \in 1..Len(rows) |->
        [id |-> rows[k].project_id,
         queriesLast24h |-> rows[k].total_queries,
         status |-> IF ExceedsFivePercent(rows[k].error_count, rows[k].total_queries)
                    THEN "warning" ELSE "healthy",
         errorCount |-> rows[k].error_count]]

\* The options of the project select.
ProjectOptions ==
    { ctxProjects[k].id : k \in 1..Len(ctxProjects) }

\* The option the project select shows: its value, or the first option when
\* the value is none of the options.
ProjectShown ==
    IF selectedProject \in ProjectOptions \/ ctxProjects = << >>
    THEN selectedProject
    ELSE ctxProjects[1].id

\* The loading prop the shown view passes to FilterControls.
ViewLoading ==
    CASE location = RootPath -> orgLoading
      [] location = PulsePath -> pulseLoading
      [] location = TimeWindowPath -> twLoading
      [] location = ExpensivePath -> loadingQueries
      [] OTHER -> FALSE

\* FilterControls is rendered: a view is shown, and three views return only
\* the loader while loading.
FiltersShown ==
    /\ location \in Routes
    /\ location = ExpensivePath \/ ~ViewLoading

\* The job_id of the rendered query items.
ListedJobs ==
    { expensiveQueries.items[k].job_id : k \in 1..Len(expensiveQueries.items) }

\* {expensiveQueries.length} queries
QueryCount ==
    Len(expensiveQueries.items)

\* Faulty variant of RankNumber: the index of map is shown as it is.
RankNumberFromZero(index) ==
    index

\* #{index + 1}, index being the position map passes, from 0.
RankNumber(index) ==
    index + 1

\* The query items of the list, in the order of their rendering: the loader
\* or the empty state is rendered in their place while loading or when the
\* list is empty.
RenderedQueries ==
    IF loadingQueries \/ Len(expensiveQueries.items) = 0 THEN << >>
    ELSE [k \in 1..Len(expensiveQueries.items) |->
             [key |-> expensiveQueries.items[k].job_id,
              rank |-> RankNumber(k - 1),
              selected |-> (selectedJobId = expensiveQueries.items[k].job_id)]]

\* 'No preview available'
NoPreviewText ==
    << "N", "o", " ", "p", "r", "e", "v", "i", "e", "w", " ",
       "a", "v", "a", "i", "l", "a", "b", "l", "e" >>

\* obj[name], or the empty text where JavaScript gives undefined: both are falsy.
Field(obj, name) ==
    IF name \in DOMAIN obj THEN obj[name] ELSE EmptyText

\* Faulty variant of Substring: the unit at indexEnd is taken too.
SubstringThroughEnd(text, indexStart, indexEnd) ==
    SubSeq(text, indexStart + 1, IF indexEnd + 1 > Len(text) THEN Len(text) ELSE indexEnd + 1)

\* String.prototype.substring: the UTF-16 units of text from indexStart up to,
\* not including, indexEnd, both from 0; an index beyond the text is its length.
Substring(text, indexStart, indexEnd) ==
    LET clamp(n) == IF n < 0 THEN 0 ELSE IF n > Len(text) THEN Len(text) ELSE n
        from == IF clamp(indexStart) < clamp(indexEnd) THEN clamp(indexStart)
                ELSE clamp(indexEnd)
        to == IF clamp(indexStart) < clamp(indexEnd) THEN clamp(indexEnd)
              ELSE clamp(indexStart)
    IN  SubSeq(text, from + 1, to)

\* query.query_preview || query.query?.substring(0, Config.MAX_QUERY_PREVIEW_LENGTH)
\*     || 'No preview available'
QueryPreview(query) ==
    IF Field(query, "query_preview") # EmptyText THEN Field(query, "query_preview")
    ELSE IF Substring(Field(query, "query"), 0, MAX_QUERY_PREVIEW_LENGTH) # EmptyText
         THEN Substring(Field(query, "query"), 0, MAX_QUERY_PREVIEW_LENGTH)
         ELSE NoPreviewText

\* The text of the query-preview element of each rendered item.
RenderedPreviews ==
    [k \in 1..Len(RenderedQueries) |-> QueryPreview(expensiveQueries.items[k])]

\* The details section shows queryDetails.
DetailsShown ==
    /\ location = ExpensivePath
    /\ selectedJobId # NoJob
    /\ ~loadingDetails
    /\ queryDetails # Null

\* The optimize button is rendered and not disabled.
OptimizeEnabled ==
    /\ DetailsShown
    /\ ~(loadingRecommendations \/ queryDetails.ddl = EmptyText)

\* No continuation is waiting to run.  A continuation runs in the task that
\* settles its promise, before the browser handles any other event.
Idle ==
    \A k \in 1..Len(net) : net[k].status = "pending"

\* An event that issues n calls can be handled.
CanIssue(n) ==
    /\ Idle
    /\ Len(net) + n <= MaxInFlight

(***************************************************************************)
(* The synchronous part of each fetch function, up to its await.           *)
(***************************************************************************)
fetchProjects ==
    ctxLoading' = TRUE

fetchOrganizationData ==
    /\ orgLoading' = TRUE
    /\ UNCHANGED << orgProjects, orgStats >>

fetchPulseData ==
    /\ pulseLoading' = TRUE
    /\ UNCHANGED pulseData

fetchDashboardData ==
    /\ twLoading' = TRUE
    /\ UNCHANGED dashboardData

fetchExpensiveQueries ==
    /\ loadingQueries' = TRUE
    /\ debugInfo' = EmptyText
    /\ UNCHANGED << expensiveQueries, selectedJobId, queryDetails, recommendations,
                    isModalOpen, loadingDetails, loadingRecommendations >>

\* The fetch of the shown view (its effect, or its refresh button); the state
\* of the other views, which are not mounted, stays as it is.
FetchView ==
    /\ IF location = RootPath THEN fetchOrganizationData ELSE UNCHANGED orgVars
    /\ IF location = PulsePath THEN fetchPulseData ELSE UNCHANGED pulseVars
    /\ IF location = TimeWindowPath THEN fetchDashboardData
       ELSE UNCHANGED << dashboardData, twLoading >>
    /\ IF location = ExpensivePath THEN fetchExpensiveQueries ELSE UNCHANGED eqVars

(***************************************************************************)
(* User events.                                                            *)
(***************************************************************************)
\* The region select: setSelectedRegion, then the effects of the view and of
\* the provider.
ChangeRegion(region) ==
    /\ FiltersShown
    /\ ~ctxLoading
    /\ region \in Regions \ {selectedRegion}
    /\ CanIssue(2)
    /\ selectedRegion' = region
    /\ fetchProjects
    /\ FetchView
    /\ net' = net \o << ViewCall(location, timeRange, selectedProject, region),
                        ProjectsCall(region) >>
    /\ UNCHANGED << ctxProjects, selectedProject, location, timeRange >>

\* The project select: setSelectedProject, then the effect of the view.
ChangeProject(project) ==
    /\ FiltersShown
    /\ ~ctxLoading
    /\ project \in ProjectOptions \ {ProjectShown}
    /\ CanIssue(1)
    /\ selectedProject' = project
    /\ FetchView
    /\ net' = net \o << ViewCall(location, timeRange, project, selectedRegion) >>
    /\ UNCHANGED << ctxProjects, selectedRegion, ctxLoading, location, timeRange >>

\* The time range select of TimeWindowInvestigation: setTimeRange, then the effect.
ChangeTimeRange(range) ==
    /\ location = TimeWindowPath
    /\ FiltersShown
    /\ range \in TimeRanges \ {timeRange}
    /\ CanIssue(1)
    /\ timeRange' = range
    /\ FetchView
    /\ net' = net \o << ViewCall(location, range, selectedProject, selectedRegion) >>
    /\ UNCHANGED << ctxVars, location >>

\* The refresh button: onRefresh, disabled while loading || projectsLoading.
Refresh ==
    /\ FiltersShown
    /\ ~(ViewLoading \/ ctxLoading)
    /\ CanIssue(1)
    /\ FetchView
    /\ net' = net \o << ViewCall(location, timeRange, selectedProject, selectedRegion) >>
    /\ UNCHANGED << ctxVars, location, timeRange >>

\* A navigation link: Routes unmounts the shown view and mounts the view of
\* path, whose state starts from its useState values and whose mount effect
\* fetches.
Navigate(path) ==
    /\ path \in Routes \ {location}
    /\ CanIssue(1)
    /\ location' = path
    /\ orgProjects' = << >>
    /\ orgStats' = EmptyOrgStats
    /\ orgLoading' = TRUE
    /\ pulseData' = Null
    /\ pulseLoading' = TRUE
    /\ dashboardData' = Null
    /\ timeRange' = DEFAULT_TIME_RANGE
    /\ twLoading' = TRUE
    /\ expensiveQueries' = JsArray(<< >>)
    /\ selectedJobId' = NoJob
    /\ queryDetails' = Null
    /\ recommendations' = EmptyText
    /\ debugInfo' = EmptyText
    /\ isModalOpen' = FALSE
    /\ loadingQueries' = (path = ExpensivePath)
    /\ loadingDetails' = FALSE
    /\ loadingRecommendations' = FALSE
    /\ net' = Orphaned(net)
              \o << ViewCall(path, DEFAULT_TIME_RANGE, selectedProject, selectedRegion) >>
    /\ UNCHANGED ctxVars

\* Faulty variant of handleQuerySelect: the return of the first branch is
\* missing, so a click on the selected item selects it again and fetches.
handleQuerySelectWithoutReturn(jobId) ==
    /\ location = ExpensivePath
    /\ ~loadingQueries
    /\ jobId \in ListedJobs
    /\ CanIssue(1)
    /\ selectedJobId' = jobId
    /\ recommendations' = EmptyText
    /\ loadingDetails' = TRUE
    /\ net' = net \o << DetailsCall(jobId) >>
    /\ UNCHANGED queryDetails
    /\ UNCHANGED << expensiveQueries, debugInfo, isModalOpen, loadingQueries,
                    loadingRecommendations >>
    /\ UNCHANGED << ctxVars, location, orgVars, pulseVars, twVars >>

\* A click on a project card of the organization overview: a Link to the
\* project's path.  Routes unmounts the overview and mounts the element of
\* the route that matches the path, if there is one; no fetch is made.
OpenProject(id) ==
    /\ location = RootPath
    /\ ~orgLoading
    /\ \E k \in 1..Len(orgProjects) : orgProjects[k].id = id
    /\ Idle
    /\ location' = ProjectPath(id)
    /\ orgProjects' = << >>
    /\ orgStats' = EmptyOrgStats
    /\ orgLoading' = TRUE
    /\ pulseData' = Null
    /\ pulseLoading' = TRUE
    /\ dashboardData' = Null
    /\ timeRange' = DEFAULT_TIME_RANGE
    /\ twLoading' = TRUE
    /\ expensiveQueries' = JsArray(<< >>)
    /\ selectedJobId' = NoJob
    /\ queryDetails' = Null
    /\ recommendations' = EmptyText
    /\ debugInfo' = EmptyText
    /\ isModalOpen' = FALSE
    /\ loadingQueries' = FALSE
    /\ loadingDetails' = FALSE
    /\ loadingRecommendations' = FALSE
    /\ net' = Orphaned(net)
    /\ UNCHANGED ctxVars

\* A click on a query item.
handleQuerySelect(jobId) ==
    /\ location = ExpensivePath
    /\ ~loadingQueries
    /\ jobId \in ListedJobs
    /\ IF selectedJobId = jobId
       THEN /\ Idle
            /\ selectedJobId' = NoJob
            /\ queryDetails' = Null
            /\ recommendations' = EmptyText
            /\ UNCHANGED << loadingDetails, net >>
       ELSE /\ CanIssue(1)
            /\ selectedJobId' = jobId
            /\ recommendations' = EmptyText
            /\ loadingDetails' = TRUE
            /\ net' = net \o << DetailsCall(jobId) >>
            /\ UNCHANGED queryDetails
    /\ UNCHANGED << expensiveQueries, debugInfo, isModalOpen, loadingQueries,
                    loadingRecommendations >>
    /\ UNCHANGED << ctxVars, location, orgVars, pulseVars, twVars >>

\* A click on "Get AI Recommendations".
getOptimizationRecommendations ==
    /\ OptimizeEnabled
    /\ queryDetails # Null
    /\ CanIssue(1)
    /\ isModalOpen' = TRUE
    /\ loadingRecommendations' = TRUE
    /\ net' = net \o << OptimizeCall(queryDetails) >>
    /\ UNCHANGED << expensiveQueries, selectedJobId, queryDetails, recommendations,
                    debugInfo, loadingQueries, loadingDetails >>
    /\ UNCHANGED << ctxVars, location, orgVars, pulseVars, twVars >>

\* onClose of the recommendations modal.
handleCloseModal ==
    /\ Idle
    /\ location = ExpensivePath
    /\ isModalOpen
    /\ isModalOpen' = FALSE
    /\ UNCHANGED << expensiveQueries, selectedJobId, queryDetails, recommendations,
                    debugInfo, loadingQueries, loadingDetails, loadingRecommendations >>
    /\ UNCHANGED << ctxVars, location, orgVars, pulseVars, twVars, net >>

(***************************************************************************)
(* The back end settles a call: the awaited promise resolves or rejects.   *)
(***************************************************************************)
Settle(i, outcome) ==
    /\ Idle
    /\ i \in 1..Len(net)
    /\ net[i].status = "pending"
    /\ outcome \in {"ok", "error"}
    /\ net' = [net EXCEPT ![i].status = outcome]
    /\ UNCHANGED << ctxVars, location, viewVars >>

(***************************************************************************)
(* Continuations: the code after each await, with its catch and finally.   *)
(***************************************************************************)
\* A settled call of a component that is still mounted.
Handled(i, kind, outcome) ==
    /\ Settled(i)
    /\ net[i].kind = kind
    /\ net[i].status = outcome
    /\ Mounted(net[i])

fetchProjectsOk(i) ==
    /\ Handled(i, "projects", "ok")
    /\ ctxProjects' = ProjectsBody(net[i].region)
    /\ ctxLoading' = FALSE
    /\ net' = RemoveAt(net, i)
    /\ UNCHANGED << selectedProject, selectedRegion, location, viewVars >>

\* Faulty variant of fetchProjectsFailed: the catch branch also resets the
\* selected project to the wildcard.
fetchProjectsFailedResetsProject(i) ==
    /\ Handled(i, "projects", "error")
    /\ ctxProjects' = FallbackProjects
    /\ selectedProject' = AnyProject
    /\ ctxLoading' = FALSE
    /\ net' = RemoveAt(net, i)
    /\ UNCHANGED << selectedRegion, location, viewVars >>

fetchProjectsFailed(i) ==
    /\ Handled(i, "projects", "error")
    /\ ctxProjects' = FallbackProjects
    /\ ctxLoading' = FALSE
    /\ net' = RemoveAt(net, i)
    /\ UNCHANGED << selectedProject, selectedRegion, location, viewVars >>

\* Faulty variant of fetchOrganizationDataThen: an answer without projects is
\* taken as no answer, and the setters are not called.
fetchOrganizationDataThenSkipsEmpty(data) ==
    /\ IF data.projects = << >>
       THEN UNCHANGED << orgProjects, orgStats >>
       ELSE /\ orgProjects' = FormatProjects(data.projects)
            /\ orgStats' = [totalProjects |-> data.orgStats.totalProjects,
                            totalQueries |-> data.orgStats.totalQueries,
                            totalErrors |-> data.orgStats.totalErrors]
    /\ orgLoading' = FALSE

\* fetchOrganizationData after its await, for the answer data: the rest of
\* the try branch and the finally branch.
fetchOrganizationDataThen(data) ==
    /\ orgProjects' = FormatProjects(data.projects)
    /\ orgStats' = [totalProjects |-> data.orgStats.totalProjects,
                    totalQueries |-> data.orgStats.totalQueries,
                    totalErrors |-> data.orgStats.totalErrors]
    /\ orgLoading' = FALSE

fetchOrganizationDataOk(i) ==
    /\ Handled(i, "organization-overview", "ok")
    /\ fetchOrganizationDataThen(OrganizationOverviewBody(net[i].region))
    /\ net' = RemoveAt(net, i)
    /\ UNCHANGED << ctxVars, location, pulseVars, twVars, eqVars >>

fetchOrganizationDataFailed(i) ==
    /\ Handled(i, "organization-overview", "error")
    /\ orgProjects' = << >>
    /\ orgStats' = EmptyOrgStats
    /\ orgLoading' = FALSE
    /\ net' = RemoveAt(net, i)
    /\ UNCHANGED << ctxVars, location, pulseVars, twVars, eqVars >>

fetchPulseDataOk(i) ==
    /\ Handled(i, "pulse-data", "ok")
    /\ pulseData' = PulseDataBody(net[i].project, net[i].region)
    /\ pulseLoading' = FALSE
    /\ net' = RemoveAt(net, i)
    /\ UNCHANGED << ctxVars, location, orgVars, twVars, eqVars >>

fetchPulseDataFailed(i) ==
    /\ Handled(i, "pulse-data", "error")
    /\ pulseData' = MockPulseData
    /\ pulseLoading' = FALSE
    /\ net' = RemoveAt(net, i)
    /\ UNCHANGED << ctxVars, location, orgVars, twVars, eqVars >>

fetchDashboardDataOk(i) ==
    /\ Handled(i, "operational-dashboard", "ok")
    /\ dashboardData' =
           OperationalDashboardBody(net[i].timeRange, net[i].project, net[i].region)
    /\ twLoading' = FALSE
    /\ net' = RemoveAt(net, i)
    /\ UNCHANGED << ctxVars, location, orgVars, pulseVars, timeRange, eqVars >>

\* Faulty variant of fetchDashboardDataFailed: the catch branch clears the
\* data, as the one of handleQuerySelect does.
fetchDashboardDataFailedClearsData(i) ==
    /\ Handled(i, "operational-dashboard", "error")
    /\ dashboardData' = Null
    /\ twLoading' = FALSE
    /\ net' = RemoveAt(net, i)
    /\ UNCHANGED << ctxVars, location, orgVars, pulseVars, timeRange, eqVars >>

fetchDashboardDataFailed(i) ==
    /\ Handled(i, "operational-dashboard", "error")
    /\ dashboardData' = EmptyDashboard
    /\ twLoading' = FALSE
    /\ net' = RemoveAt(net, i)
    /\ UNCHANGED << ctxVars, location, orgVars, pulseVars, timeRange, eqVars >>

\* fetchExpensiveQueries after its await, for the answer data: the rest of
\* the try branch and the finally branch.
fetchExpensiveQueriesThen(data) ==
    /\ debugInfo' = IF ResponseDebug(data) # EmptyText THEN ResponseDebug(data)
                    ELSE debugInfo
    /\ expensiveQueries' = ResponseQueries(data)
    /\ selectedJobId' = NoJob
    /\ queryDetails' = Null
    /\ recommendations' = EmptyText
    /\ loadingQueries' = FALSE
    /\ UNCHANGED << isModalOpen, loadingDetails, loadingRecommendations >>

fetchExpensiveQueriesOk(i) ==
    /\ Handled(i, "expensive-queries", "ok")
    /\ fetchExpensiveQueriesThen(ExpensiveQueriesBody(net[i].project, net[i].region))
    /\ net' = RemoveAt(net, i)
    /\ UNCHANGED << ctxVars, location, orgVars, pulseVars, twVars >>

fetchExpensiveQueriesFailed(i) ==
    /\ Handled(i, "expensive-queries", "error")
    /\ debugInfo' = ErrorText
    /\ expensiveQueries' = JsArray(<< >>)
    /\ loadingQueries' = FALSE
    /\ net' = RemoveAt(net, i)
    /\ UNCHANGED << selectedJobId, queryDetails, recommendations, isModalOpen,
                    loadingDetails, loadingRecommendations >>
    /\ UNCHANGED << ctxVars, location, orgVars, pulseVars, twVars >>

handleQuerySelectOk(i) ==
    /\ Handled(i, "query-details", "ok")
    /\ queryDetails' = QueryDetailsBody(net[i].job_id)
    /\ loadingDetails' = FALSE
    /\ net' = RemoveAt(net, i)
    /\ UNCHANGED << expensiveQueries, selectedJobId, recommendations, debugInfo,
                    isModalOpen, loadingQueries, loadingRecommendations >>
    /\ UNCHANGED << ctxVars, location, orgVars, pulseVars, twVars >>

\* Faulty variant of handleQuerySelectFailed: loadingDetails is cleared at the
\* end of the try branch only, not in a finally branch.
handleQuerySelectFailedKeepsLoading(i) ==
    /\ Handled(i, "query-details", "error")
    /\ queryDetails' = Null
    /\ net' = RemoveAt(net, i)
    /\ UNCHANGED << expensiveQueries, selectedJobId, recommendations, debugInfo,
                    isModalOpen, loadingQueries, loadingDetails, loadingRecommendations >>
    /\ UNCHANGED << ctxVars, location, orgVars, pulseVars, twVars >>

handleQuerySelectFailed(i) ==
    /\ Handled(i, "query-details", "error")
    /\ queryDetails' = Null
    /\ loadingDetails' = FALSE
    /\ net' = RemoveAt(net, i)
    /\ UNCHANGED << expensiveQueries, selectedJobId, recommendations, debugInfo,
                    isModalOpen, loadingQueries, loadingRecommendations >>
    /\ UNCHANGED << ctxVars, location, orgVars, pulseVars, twVars >>

getOptimizationRecommendationsOk(i) ==
    /\ Handled(i, "optimize", "ok")
    /\ recommendations' = OptimizeBody(net[i].query, net[i].ddl).recommendations
    /\ loadingRecommendations' = FALSE
    /\ net' = RemoveAt(net, i)
    /\ UNCHANGED << expensiveQueries, selectedJobId, queryDetails, debugInfo,
                    isModalOpen, loadingQueries, loadingDetails >>
    /\ UNCHANGED << ctxVars, location, orgVars, pulseVars, twVars >>

\* Faulty variant of getOptimizationRecommendationsFailed: the catch branch
\* clears the details, as the one of handleQuerySelect does.
getOptimizationRecommendationsFailedClearsDetails(i) ==
    /\ Handled(i, "optimize", "error")
    /\ queryDetails' = Null
    /\ loadingRecommendations' = FALSE
    /\ net' = RemoveAt(net, i)
    /\ UNCHANGED << expensiveQueries, selectedJobId, recommendations,
                    debugInfo, isModalOpen, loadingQueries, loadingDetails >>
    /\ UNCHANGED << ctxVars, location, orgVars, pulseVars, twVars >>

getOptimizationRecommendationsFailed(i) ==
    /\ Handled(i, "optimize", "error")
    /\ loadingRecommendations' = FALSE
    /\ net' = RemoveAt(net, i)
    /\ UNCHANGED << expensiveQueries, selectedJobId, queryDetails, recommendations,
                    debugInfo, isModalOpen, loadingQueries, loadingDetails >>
    /\ UNCHANGED << ctxVars, location, orgVars, pulseVars, twVars >>

\* The continuation of a call whose component was unmounted: its state
\* setters have no effect.
Abandoned(i) ==
    /\ Settled(i)
    /\ ~Mounted(net[i])
    /\ net' = RemoveAt(net, i)
    /\ UNCHANGED << ctxVars, location, viewVars >>

Continue(i) ==
    \/ fetchProjectsOk(i)
    \/ fetchProjectsFailed(i)
    \/ fetchOrganizationDataOk(i)
    \/ fetchOrganizationDataFailed(i)
    \/ fetchPulseDataOk(i)
    \/ fetchPulseDataFailed(i)
    \/ fetchDashboardDataOk(i)
    \/ fetchDashboardDataFailed(i)
    \/ fetchExpensiveQueriesOk(i)
    \/ fetchExpensiveQueriesFailed(i)
    \/ handleQuerySelectOk(i)
    \/ handleQuerySelectFailed(i)
    \/ getOptimizationRecommendationsOk(i)
    \/ getOptimizationRecommendationsFailed(i)
    \/ Abandoned(i)

Next ==
    \/ \E region \in Regions : ChangeRegion(region)
    \/ \E project \in {AnyProject, "p1", "p2"} : ChangeProject(project)
    \/ \E range \in TimeRanges : ChangeTimeRange(range)
    \/ Refresh
    \/ \E path \in Routes : Navigate(path)
    \/ \E k \in 1..Len(orgProjects) : OpenProject(orgProjects[k].id)
    \/ \E jobId \in JobIds : handleQuerySelect(jobId)
    \/ getOptimizationRecommendations
    \/ handleCloseModal
    \/ \E i \in 1..MaxInFlight, outcome \in {"ok", "error"} : Settle(i, outcome)
    \/ \E i \in 1..MaxInFlight : Continue(i)

Spec == Init /\ [][Next]_vars

(***************************************************************************)
(* Answers of any content.  The continuations of the two list fetches are  *)
(* applied to answers drawn from bounded sets, in place of the answers the *)
(* fixed job history gives: a view awaits the answer to its first fetch,   *)
(* and one step brings it.  The calls themselves are left out.             *)
(***************************************************************************)
\* A job history of MaxRecords records with equal costs among them.
History ==
    { [job_id |-> "h" \o ToString(k), project_id |-> "p1", region |-> "us",
       total_slot_ms |-> k % 4, creation_time |-> k] : k \in 1..MaxRecords }

\* A view that awaits the answer to its first fetch.
AnswerInit ==
    /\ ctxProjects = ProjectsBody(InitialRegion)
    /\ selectedProject = AnyProject
    /\ selectedRegion = InitialRegion
    /\ ctxLoading = FALSE
    /\ location \in {RootPath, ExpensivePath}
    /\ OrgInitial
    /\ PulseInitial
    /\ TimeWindowInitial
    /\ ExpensiveInitial(location = ExpensivePath)
    /\ net = << >>

\* expensive-queries answers the top of some job history.
AnswerRanking ==
    /\ location = ExpensivePath
    /\ loadingQueries
    /\ \E records \in SUBSET History :
           fetchExpensiveQueriesThen(ObjectBody(TRUE, TopOf(records, TopN), EmptyText))
    /\ UNCHANGED << ctxVars, location, orgVars, pulseVars, twVars, net >>

\* The two UTF-16 units of a character outside the basic plane (U+1F600).
HighSurrogate == "D83D"
LowSurrogate == "DE00"

\* A well-formed text of length units: letters, and at the units pairAt and
\* pairAt + 1 one character of two units (none for pairAt = 0).
QueryText(length, pairAt) ==
    [k \in 1..length |->
        IF pairAt > 0 /\ k = pairAt THEN HighSurrogate
        ELSE IF pairAt > 0 /\ k = pairAt + 1 THEN LowSurrogate
        ELSE "a"]

QueryLengths == (0..MaxQueryLength) \cup {500}

\* Places of the two-unit character: none, the start, and around the limit
\* of the preview.
PairPlaces ==
    {0, 1} \cup ((MAX_QUERY_PREVIEW_LENGTH - 2)..(MAX_QUERY_PREVIEW_LENGTH + 1))

\* The previews the back end may supply: none, or its own text.
ServerPreviews == {EmptyText, << "s", "e", "l" >>}

\* expensive-queries answers one query with a text, with or without a preview.
AnswerPreview ==
    /\ location = ExpensivePath
    /\ loadingQueries
    /\ \E length \in QueryLengths, pairAt \in PairPlaces, preview \in ServerPreviews :
           /\ pairAt < length \/ pairAt = 0
           /\ fetchExpensiveQueriesThen(
                  ObjectBody(TRUE,
                             << [job_id |-> "h1", project_id |-> "p1",
                                 total_slot_ms |-> 1, creation_time |-> 1,
                                 query |-> QueryText(length, pairAt),
                                 query_preview |-> preview] >>,
                             EmptyText))
    /\ UNCHANGED << ctxVars, location, orgVars, pulseVars, twVars, net >>

\* organization-overview answers one project with some counts.
AnswerProjects ==
    /\ location = RootPath
    /\ orgLoading
    /\ \E total \in 0..MaxTotalQueries, errors \in 0..MaxErrorCount :
           /\ errors <= total
           /\ fetchOrganizationDataThen(
                  [projects |-> << [project_id |-> "p1", total_queries |-> total,
                                    error_count |-> errors] >>,
                   orgStats |-> [totalProjects |-> 1, totalQueries |-> total,
                                 totalErrors |-> errors]])
    /\ UNCHANGED << ctxVars, location, pulseVars, twVars, eqVars, net >>

\* The bodies of an answer of another form than { queries }: a bare list, an
\* object without queries (with or without a debug text), the empty body.
OtherBodies ==
    { JsArray(TopOf(records, TopN)) : records \in SUBSET InScope(AnyProject, "us") }
    \cup { ObjectBody(FALSE, << >>, debug) : debug \in {EmptyText, << "no", "data" >>} }
    \cup { EmptyBody }

\* expensive-queries answers a body of another form.
AnswerBody ==
    /\ location = ExpensivePath
    /\ loadingQueries
    /\ \E data \in OtherBodies : fetchExpensiveQueriesThen(data)
    /\ UNCHANGED << ctxVars, location, orgVars, pulseVars, twVars, net >>

AnswerNext ==
    \/ AnswerRanking
    \/ AnswerPreview
    \/ AnswerProjects
    \/ AnswerBody

AnswerSpec == AnswerInit /\ [][AnswerNext]_vars

(***************************************************************************)
(* Properties.                                                             *)
(***************************************************************************)
\* The four data calls of the views.
ViewDataKinds ==
    {"organization-overview", "pulse-data", "operational-dashboard", "expensive-queries"}

\* The continuation of call i is about to run for a mounted component and the
\* call ended with outcome.
AboutToHandle(i, kind, outcome) ==
    /\ net[i].kind = kind
    /\ net[i].status = outcome
    /\ net[i].live

\* C1: when the data call of a view fails, the view leaves the loading state
\* and shows its empty state: empty lists and zero-valued KPIs, no substituted
\* data.
C1_FailedFetchShowsEmptyState ==
    [][\A i \in 1..Len(net) :
          /\ AboutToHandle(i, "organization-overview", "error") =>
                /\ ~orgLoading'
                /\ orgProjects' = << >>
                /\ orgStats' = [totalProjects |-> 0, totalQueries |-> 0, totalErrors |-> 0]
          /\ AboutToHandle(i, "pulse-data", "error") =>
                /\ ~pulseLoading'
                /\ pulseData' # Null
                /\ pulseData'.weeklySlotMs = << >>
                /\ pulseData'.kpis.spillsToDiskWTD = 0
                /\ pulseData'.reservations.totalSlots = 0
          /\ AboutToHandle(i, "operational-dashboard", "error") =>
                /\ ~twLoading'
                /\ dashboardData' # Null
                /\ dashboardData'.slotUsageChart = << >>
                /\ dashboardData'.topUsers = << >>
                /\ dashboardData'.kpis.slotUsage.current = 0
                /\ dashboardData'.kpis.errors.count = 0
                /\ dashboardData'.kpis.totalJobs.value = 0
          /\ AboutToHandle(i, "expensive-queries", "error") =>
                /\ ~loadingQueries'
                /\ expensiveQueries' = JsArray(<< >>)
      ]_vars

\* The optimize button is rendered for details that have a schema (it may be
\* disabled by a running call).
OptimizeOffered ==
    /\ DetailsShown
    /\ queryDetails.ddl # EmptyText

\* C2: when the optimize call fails, queryDetails and selectedJobId stay as
\* they are, loadingRecommendations is false again, the button that was
\* offered is enabled again, and no query-details call is issued.
C2_OptimizeFailureKeepsDetails ==
    [][\A i \in 1..Len(net) :
          AboutToHandle(i, "optimize", "error") =>
              /\ queryDetails' = queryDetails
              /\ selectedJobId' = selectedJobId
              /\ ~loadingRecommendations'
              /\ OptimizeOffered => OptimizeEnabled'
              /\ Len(net') < Len(net)
      ]_vars

\* C2 witness: a failed optimize call is about to be handled while the
\* details it was made for are shown.
C2_Witness ==
    \E i \in 1..Len(net) :
        /\ AboutToHandle(i, "optimize", "error")
        /\ OptimizeOffered
        /\ loadingRecommendations
        /\ net[i].query = queryDetails.query

\* C3: whenever the details section shows query details, they are the answer
\* of the query-details call for the selected job.
C3_DetailsAreOfSelectedJob ==
    DetailsShown => queryDetails = QueryDetailsBody(selectedJobId)

\* The recommendations modal shows text.
ModalShowsText ==
    /\ location = ExpensivePath
    /\ isModalOpen
    /\ ~loadingRecommendations
    /\ recommendations # EmptyText

\* C4: whenever the modal shows text while query details are held, the text is
\* the answer of optimize for the query and ddl of those details.
C4_RecommendationsAreOfHeldDetails ==
    (ModalShowsText /\ queryDetails # Null) =>
        recommendations = OptimizeBody(queryDetails.query, queryDetails.ddl).recommendations

\* No expensive-queries call of the shown view is outstanding.
NoListCallOutstanding ==
    \A i \in 1..Len(net) : ~(net[i].kind = "expensive-queries" /\ net[i].live)

\* C5: once every expensive-queries call has completed, the displayed list is
\* the answer for the current project and region (or empty, if that call
\* failed), whatever the order of the answers.
C5_ListIsOfCurrentSelection ==
    (location = ExpensivePath /\ NoListCallOutstanding) =>
        \/ expensiveQueries =
              JsArray(ExpensiveQueriesBody(selectedProject, selectedRegion).queries)
        \/ expensiveQueries = JsArray(<< >>)

\* A view call of an unmounted component has ended and its continuation is
\* about to run.
OrphanEnds(i) ==
    /\ net[i].status # "pending"
    /\ ~net[i].live

\* The data call a view awaits, by route.
ViewKind(path) ==
    CASE path = RootPath -> "organization-overview"
      [] path = PulsePath -> "pulse-data"
      [] path = TimeWindowPath -> "operational-dashboard"
      [] path = ExpensivePath -> "expensive-queries"

\* C6: a call that is in flight when the user navigates away finishes without
\* changing any state of the application, and the view that is shown waits
\* only for a call of its own mounting.
C6_OrphanedCallsChangeNothing ==
    /\ [][\A i \in 1..Len(net) :
             OrphanEnds(i) => UNCHANGED << ctxVars, location, viewVars >>
         ]_vars
    /\ [](ViewLoading =>
             \E i \in 1..Len(net) : net[i].kind = ViewKind(location) /\ net[i].live)

\* C6 witness: the user left a view and came back to it, and the call of the
\* first mounting has now answered with data.
C6_Witness ==
    \E i \in 1..Len(net) :
        /\ OrphanEnds(i)
        /\ net[i].status = "ok"
        /\ RouteOf(net[i].kind) = location

\* The loading flag that covers a call of the shown view.
LoadingFlagOf(kind) ==
    CASE kind = "organization-overview" -> orgLoading
      [] kind = "pulse-data" -> pulseLoading
      [] kind = "operational-dashboard" -> twLoading
      [] kind = "expensive-queries" -> loadingQueries
      [] kind = "query-details" -> loadingDetails
      [] kind = "optimize" -> loadingRecommendations

\* C7: while a call issued by the shown view is outstanding, the loading flag
\* of that call is true.
C7_LoadingWhileOutstanding ==
    \A i \in 1..Len(net) :
        (net[i].live /\ RouteOf(net[i].kind) # "") => LoadingFlagOf(net[i].kind)

\* C8: a failed call changes only the state of the operation that issued it.
C8_FailureIsLocal ==
    [][\A i \in 1..Len(net) :
          /\ AboutToHandle(i, "projects", "error") =>
                UNCHANGED << viewVars, selectedProject, selectedRegion >>
          /\ (net[i].kind \in ViewDataKinds /\ net[i].status = "error" /\ net[i].live) =>
                UNCHANGED << ctxProjects, selectedProject, selectedRegion, ctxLoading >>
          /\ (net[i].kind \in {"query-details", "optimize"}
                /\ net[i].status = "error" /\ net[i].live) =>
                UNCHANGED expensiveQueries
      ]_vars

\* C8 witness: the projects call fails while a project other than the wildcard
\* is selected and the shown view holds a list.
C8_Witness ==
    \E i \in 1..Len(net) :
        /\ AboutToHandle(i, "projects", "error")
        /\ selectedProject # AnyProject
        /\ expensiveQueries # JsArray(<< >>)

\* The calls a step issues.
Issued ==
    IF Len(net') > Len(net) THEN SubSeq(net', Len(net) + 1, Len(net')) ELSE << >>

\* A call carries the selection cur (time range, project, region) as its
\* endpoint takes it.
Carries(call, cur) ==
    CASE call.kind \in {"projects", "organization-overview"} ->
            call.timeRange = "" /\ call.project = "" /\ call.region = cur[3]
      [] call.kind \in {"pulse-data", "expensive-queries"} ->
            call.timeRange = "" /\ call.project = cur[2] /\ call.region = cur[3]
      [] call.kind = "operational-dashboard" ->
            call.timeRange = cur[1] /\ call.project = cur[2] /\ call.region = cur[3]
      [] OTHER -> TRUE

\* C9: every data call carries the selection that is current when it is
\* issued, and every change of project, region or time range while a view is
\* mounted issues a call of that view with the new values.
C9_CallsCarryCurrentSelection ==
    [][/\ \A k \in 1..Len(Issued) :
             Carries(Issued[k], << timeRange', selectedProject', selectedRegion' >>)
       /\ (/\ location' = location
           /\ << timeRange, selectedProject, selectedRegion >>
                 # << timeRange', selectedProject', selectedRegion' >>) =>
             \E k \in 1..Len(Issued) :
                 /\ Issued[k].kind = ViewKind(location)
                 /\ Issued[k].live
                 /\ Carries(Issued[k], << timeRange', selectedProject', selectedRegion' >>)
       /\ selectedRegion' # selectedRegion =>
             \E k \in 1..Len(Issued) :
                 Issued[k].kind = "projects" /\ Issued[k].region = selectedRegion'
      ]_vars

\* C9 witness: after a change of project and of time range, the call of the
\* time-window view that carries both is in flight.
C9_Witness ==
    /\ selectedProject = "p1"
    /\ timeRange = "1h"
    /\ \E i \in 1..Len(net) :
          /\ net[i].kind = "operational-dashboard"
          /\ net[i].live
          /\ net[i].timeRange = "1h"
          /\ net[i].project = "p1"

\* C10: the displayed list is sorted descending by slot-ms, ties by ascending
\* creation time.
C10_ListIsRanked ==
    \A i, j \in 1..Len(expensiveQueries.items) :
        i < j =>
            \/ expensiveQueries.items[i].total_slot_ms > expensiveQueries.items[j].total_slot_ms
            \/ /\ expensiveQueries.items[i].total_slot_ms = expensiveQueries.items[j].total_slot_ms
               /\ expensiveQueries.items[i].creation_time <= expensiveQueries.items[j].creation_time

\* C10 witness: a list of three entries, two of them with the same slot-ms,
\* is displayed.
C10_Witness ==
    /\ location = ExpensivePath
    /\ ~loadingQueries
    /\ Len(expensiveQueries.items) = 3
    /\ \E i, j \in 1..Len(expensiveQueries.items) :
          /\ i < j
          /\ expensiveQueries.items[i].total_slot_ms = expensiveQueries.items[j].total_slot_ms
          /\ expensiveQueries.items[i].creation_time < expensiveQueries.items[j].creation_time

\* C11: the list shows at most ten query items, however many records the
\* scope of the answer holds.
C11_AtMostTenShown ==
    (location = ExpensivePath /\ expensiveQueries.type = "array") =>
        /\ Len(RenderedQueries) <= TopN
        /\ QueryCount <= TopN

\* Ten items are shown, and a job of the history is not among them.
C11_Witness ==
    /\ location = ExpensivePath
    /\ expensiveQueries.type = "array"
    /\ Len(RenderedQueries) = TopN
    /\ \E rec \in History : rec.job_id \notin ListedJobs

\* The view shows the list: neither the loader nor a list that is no array.
ListShown ==
    /\ location = ExpensivePath
    /\ ~loadingQueries
    /\ expensiveQueries.type = "array"

\* C12: an answer of N entries, N below ten, is shown as it is: the list
\* holds the N returned entries, N items are rendered in the order of the
\* list, the count reads N, and the ranks of the items are 1..N in that order.
C12_FewerThanTenShownAsReturned ==
    /\ [](ListShown =>
            LET n == Len(expensiveQueries.items)
            IN  /\ Len(RenderedQueries) = n
                /\ QueryCount = n
                /\ \A k \in 1..Len(RenderedQueries) :
                       /\ RenderedQueries[k].rank = k
                       /\ RenderedQueries[k].key = expensiveQueries.items[k].job_id)
    /\ [][\A i \in 1..Len(net) :
             AboutToHandle(i, "expensive-queries", "ok") =>
                 /\ ListShown'
                 /\ expensiveQueries'.items =
                        TopByCost(net[i].project, net[i].region, TopN)
                 /\ debugInfo' \in {debugInfo, << "no", "jobs", "in", "scope" >>}]_vars

\* Two queries are in scope and two items are shown, ranked 1 and 2.
C12_Witness ==
    /\ ListShown
    /\ Len(expensiveQueries.items) = 2
    /\ Len(RenderedQueries) = 2
    /\ RenderedQueries[2].rank = 2
    /\ QueryCount < TopN

\* The shorter of the length of text and the limit of the preview.
PreviewLength(text) ==
    IF Len(text) < MAX_QUERY_PREVIEW_LENGTH THEN Len(text) ELSE MAX_QUERY_PREVIEW_LENGTH

\* Item k is a query for which the back end supplied no preview.
WithoutServerPreview(k) ==
    Field(expensiveQueries.items[k], "query_preview") = EmptyText

\* The preview of item k is the prefix of its query text of PreviewLength units.
PrefixShown(k) ==
    LET text == Field(expensiveQueries.items[k], "query")
    IN  /\ Len(RenderedPreviews[k]) = PreviewLength(text)
        /\ \A j \in 1..Len(RenderedPreviews[k]) : RenderedPreviews[k][j] = text[j]

\* C13 as stated: for a query without a preview of the back end, the shown
\* preview is the prefix of the query text of length min(length, 150).
C13_PreviewIsPrefix ==
    ListShown =>
        \A k \in 1..Len(RenderedQueries) : WithoutServerPreview(k) => PrefixShown(k)

\* C13 amended: for a query with a text and without a preview of the back end,
\* the shown preview is the prefix of the text of length min(length, 150);
\* for a query without text and without preview, 'No preview available' is shown.
C13_PreviewIsPrefixOfText ==
    ListShown =>
        \A k \in 1..Len(RenderedQueries) :
            WithoutServerPreview(k) =>
                IF Field(expensiveQueries.items[k], "query") # EmptyText
                THEN PrefixShown(k)
                ELSE RenderedPreviews[k] = NoPreviewText

\* A query text of 500 units is shown as a preview of 150 units.
C13_Witness ==
    /\ ListShown
    /\ \E k \in 1..Len(RenderedQueries) :
          /\ WithoutServerPreview(k)
          /\ Len(Field(expensiveQueries.items[k], "query")) = 500
          /\ Len(RenderedPreviews[k]) = 150
          /\ PrefixShown(k)

\* The first n units of text end between the two units of one character.
SplitsCharacter(text, n) ==
    /\ n >= 1
    /\ n < Len(text)
    /\ text[n] = HighSurrogate
    /\ text[n + 1] = LowSurrogate

\* C14: the preview cut from a query text never ends between the two units
\* of one character.
C14_PreviewEndsAtCharacter ==
    ListShown =>
        \A k \in 1..Len(RenderedQueries) :
            (WithoutServerPreview(k) /\ Field(expensiveQueries.items[k], "query") # EmptyText) =>
                ~SplitsCharacter(Field(expensiveQueries.items[k], "query"),
                                 Len(RenderedPreviews[k]))

\* The answer of organization-overview holds no records.
ZeroRecords(data) ==
    /\ data.projects = << >>
    /\ data.orgStats.totalQueries = 0
    /\ data.orgStats.totalErrors = 0

\* C15: when organization-overview answers (the call succeeds) with zero
\* records, the continuation leaves the view not loading, with totalQueries 0,
\* totalErrors 0 and an empty project list.
C15_ZeroRecordsShownAsZeros ==
    [][\A i \in 1..Len(net) :
          (/\ AboutToHandle(i, "organization-overview", "ok")
           /\ ZeroRecords(OrganizationOverviewBody(net[i].region))) =>
              /\ ~orgLoading'
              /\ orgStats'.totalQueries = 0
              /\ orgStats'.totalErrors = 0
              /\ orgStats'.totalProjects = 0
              /\ orgProjects' = << >>
              /\ net' = RemoveAt(net, i)]_vars

\* An answer with zero records is about to be handled by a view that shows
\* the projects of another region.
C15_Witness ==
    \E i \in 1..Len(net) :
        /\ AboutToHandle(i, "organization-overview", "ok")
        /\ ZeroRecords(OrganizationOverviewBody(net[i].region))
        /\ orgProjects # << >>
        /\ orgStats.totalQueries > 0

\* The step issues again the optimize call i, for the same query and ddl.
Retried(i) ==
    \E k \in 1..Len(net') :
        /\ net'[k].kind = "optimize"
        /\ net'[k].status = "pending"
        /\ net'[k].live
        /\ net'[k].query = net[i].query
        /\ net'[k].ddl = net[i].ddl

\* C16: the failure of the first optimize call of a request is followed by one
\* further call and is not yet surfaced.  Every optimize call in flight is the
\* first of its request: only the click on the button issues one.
C16_FirstFailureIsRetried ==
    [][\A i \in 1..Len(net) :
          AboutToHandle(i, "optimize", "error") =>
              /\ Retried(i)
              /\ loadingRecommendations']_vars

\* C17: every project row is shown with status 'warning' exactly when
\* 20 * error_count > total_queries, and 'healthy' otherwise; a project with
\* no queries and no errors is 'healthy'.
C17_WarningAboveFivePercent ==
    \A k \in 1..Len(orgProjects) :
        /\ orgProjects[k].status =
               IF 20 * orgProjects[k].errorCount > orgProjects[k].queriesLast24h
               THEN "warning" ELSE "healthy"
        /\ (orgProjects[k].queriesLast24h = 0 /\ orgProjects[k].errorCount = 0) =>
               orgProjects[k].status = "healthy"

\* A project without queries is shown, as healthy.
C17_Witness ==
    /\ location = RootPath
    /\ ~orgLoading
    /\ \E k \in 1..Len(orgProjects) :
          /\ orgProjects[k].queriesLast24h = 0
          /\ orgProjects[k].errorCount = 0
          /\ orgProjects[k].status = "healthy"

\* C18, its second part: whatever the body of the answer, the state of the
\* list is an array, so that its length and its items are defined.
C18_ListStateIsArray ==
    location = ExpensivePath => expensiveQueries.type = "array"

\* C19: a selected job is the job of an item of the list the view holds.
C19_SelectedJobIsListed ==
    (location = ExpensivePath /\ selectedJobId # NoJob) => selectedJobId \in ListedJobs

\* Optimize calls that are issued and not yet handled.
OptimizeCallsInFlight ==
    { i \in 1..Len(net) : net[i].kind = "optimize" }

\* C20, its first part: at most one optimize call is in flight at any time.
C20_OneOptimizeCallInFlight ==
    Cardinality(OptimizeCallsInFlight) <= 1

\* The projects calls that are issued and not yet handled.
ProjectsCallsInFlight ==
    { i \in 1..Len(net) : net[i].kind = "projects" }

C22_SelectedProjectIsListed ==
    (~ctxLoading /\ ProjectsCallsInFlight = {}) => selectedProject \in ProjectOptions

\* C23: in the Pulse and Time Window views, loading = false implies that the
\* data of the view is not null, so the render past the loader destructures
\* an object.
C23_DataHeldWhenNotLoading ==
    /\ (location = PulsePath /\ ~pulseLoading) => pulseData # Null
    /\ (location = TimeWindowPath /\ ~twLoading) => dashboardData # Null

\* The Time Window view is past its loader after a failed call for a time
\* range the user chose.
C23_Witness ==
    /\ location = TimeWindowPath
    /\ ~twLoading
    /\ timeRange # DEFAULT_TIME_RANGE
    /\ dashboardData = EmptyDashboard

\* The kinds of call, each covered by one loading flag.
CallKinds ==
    {"projects", "organization-overview", "pulse-data", "operational-dashboard",
     "expensive-queries", "query-details", "optimize"}

\* The loading flag of a kind of call.
Loading(kind) ==
    IF kind = "projects" THEN ctxLoading ELSE LoadingFlagOf(kind)

\* The component that issues calls of this kind is mounted.
IssuerMounted(kind) ==
    kind = "projects" \/ RouteOf(kind) = location

\* A call of this kind, issued by a mounted component, is not yet handled.
Outstanding(kind) ==
    \E i \in 1..Len(net) : net[i].kind = kind /\ net[i].live

\* C24: once the calls of a kind have all completed, with success or with
\* failure, the loading flag of that kind is false, and it becomes true only
\* in a step that starts a call of that kind.
C24_LoadingClearedWhenCompleted ==
    /\ [](\A kind \in CallKinds :
             (IssuerMounted(kind) /\ ~Outstanding(kind)) => ~Loading(kind))
    /\ [][\A kind \in CallKinds :
             (IssuerMounted(kind)' /\ Loading(kind)' /\ ~(IssuerMounted(kind) /\ Loading(kind))) =>
                 \E k \in 1..Len(Issued) : Issued[k].kind = kind]_vars

\* A failed call is about to be handled while its loading flag is true and no
\* other call of its kind is outstanding.
C24_Witness ==
    \E i \in 1..Len(net) :
        /\ AboutToHandle(i, "query-details", "error")
        /\ loadingDetails
        /\ \A k \in 1..Len(net) : net[k].kind = "query-details" => k = i

\* C25: a click on the selected query item clears the selection, the details
\* and the recommendations and issues no request; a click on another item
\* selects it, clears the recommendations and issues exactly one query-details
\* request, for that job_id; both leave the list of queries as it is.
C25_SelectTogglesAndFetchesOnce ==
    [][\A jobId \in JobIds :
          handleQuerySelect(jobId) =>
             /\ expensiveQueries' = expensiveQueries
             /\ IF selectedJobId = jobId
                THEN /\ selectedJobId' = NoJob
                     /\ queryDetails' = Null
                     /\ recommendations' = EmptyText
                     /\ Issued = << >>
                ELSE /\ selectedJobId' = jobId
                     /\ recommendations' = EmptyText
                     /\ Len(Issued) = 1
                     /\ Issued[1].kind = "query-details"
                     /\ Issued[1].job_id = jobId
                     /\ Issued[1].status = "pending"]_vars

\* An item was selected and, while its details were still awaited, clicked
\* again: nothing is selected and the one request is still in flight.
C25_Witness ==
    /\ location = ExpensivePath
    /\ selectedJobId = NoJob
    /\ loadingDetails
    /\ Cardinality({ k \in 1..Len(net) :
                       net[k].kind = "query-details" /\ net[k].live }) = 1
    /\ expensiveQueries.items # << >>

\* The targets of the links that are rendered: the navigation items, and one
\* link for each project of the organization overview.
LinkTargets ==
    { navItems[k] : k \in 1..Len(navItems) }
    \cup (IF location = RootPath /\ ~orgLoading
          THEN { ProjectPath(orgProjects[k].id) : k \in 1..Len(orgProjects) }
          ELSE {})

\* C26: every navigation target, of a navigation item or of a project link
\* of the organization overview, is a path for which a route is defined, and
\* so the location is always the path of a route.
C26_EveryTargetHasRoute ==
    /\ LinkTargets \subseteq Routes
    /\ location \in Routes

====
